---- MODULE Spec2Model ----
(***************************************************************************)
(* whisper.cpp JNI bridge: the three model loaders (file / asset /         *)
(* InputStream), the loader callbacks handed to the engine, and the        *)
(* bookkeeping of JNI references and thread attachment.                    *)
(*                                                                         *)
(* The repository holds two builds of the bridge, whisperLib.c and jni.c;  *)
(* they differ in get_env_from_jvm / is_close (attach bookkeeping).  The   *)
(* variable `build` selects which one is linked.                           *)
(*                                                                         *)
(* The engine (whisper_init_with_params) is external: between the call and *)
(* its return it invokes read / eof / close of the loader, sequentially,   *)
(* on threads of its choice.                                               *)
(*                                                                         *)
(* A successful load returns the engine's whisper_context pointer as the   *)
(* handle.  freeContext, fullTranscribe and the segment accessors take the *)
(* handle back; `heap` is the engine's context storage and `api` records   *)
(* what the latest of these calls did.                                     *)
(***************************************************************************)
EXTENDS Integers, Sequences, FiniteSets, TLC

\* ---- bounds -------------------------------------------------------------
MaxData == 3      \* longest model byte sequence a source holds
MaxReq == 3       \* largest read_size the engine asks for
BufLen == 2       \* inp->buf_len, scaled down from 64 * 1024
NumWorkers == 1   \* engine threads unknown to the JVM at start
NumAddrs == 2     \* addresses the engine can place a whisper_context at
MaxSeg == 1       \* most segments one run produces
MaxThreads == 2   \* largest nthreads the host passes
NumCallers == 2   \* host threads that call fullTranscribe on their own

Min(a, b) == IF a < b THEN a ELSE b

Builds == {"whisperLib", "jni"}
HostThread == 0
Threads == 0..NumWorkers
NoRet == -1

\* before a load only the calling host thread is registered with the JVM;
\* the engine's threads are its own
FreshThreads == [t \in Threads |-> IF t = HostThread THEN "host" ELSE "none"]

VARIABLES
    build,      \* which of the two source files is compiled in
    pc,         \* "idle" | "stream" | "asset": engine load in progress
    thr,        \* thr[t]: "none" | "host" | "bridge" - who attached thread t
    exc,        \* exc[t]: a Java exception is pending on thread t
    inp,        \* struct input_stream_context (+ st: storage state)
    gref,       \* JVM global reference table: stream / buffer
    nRel,       \* release calls of this attempt: stream, buffer, ctx, detach,
                \* path; stale: reads of the path characters after release
    asset,      \* AAsset handle: st, nClose
    pathChars,  \* GetStringUTFChars result: "none" | "held" | "released"
    data,       \* bytes the source holds
    pos,        \* bytes the source has handed out
    buf,        \* contents of the Java byte[] behind buffer_gl
    delivered,  \* bytes copied into the engine's destinations, in order,
                \* recorded while the load is regular
    last,       \* the most recent loader callback and what it did
    eofSeen,    \* eof() has returned true for this loader
    regular,    \* so far in this load the host stream never reported more
                \* bytes than requested and no GetByteArrayElements failed
    engClosed,  \* close calls the engine made on this loader
    ret,        \* value returned by the last construction call
    heap,       \* heap[a]: the whisper_context storage at address a
    api,        \* the latest freeContext / fullTranscribe / segment call
    calls       \* calls[c]: the fullTranscribe call host thread c is making

vars == <<build, pc, thr, exc, inp, gref, nRel, asset, pathChars, data, pos,
          buf, delivered, last, eofSeen, regular, engClosed, ret, heap, api,
          calls>>

\* ---- struct input_stream_context ---------------------------------------
NoCtx ==
    [st |-> "none", jvm |-> FALSE, input_stream |-> FALSE, mid_read |-> FALSE,
     buffer_gl |-> FALSE, buf_len |-> 0, eof |-> 0, attached_by_us |-> 0]

\* calloc(1, sizeof(*inp)): zeroed storage
calloc_ctx == [NoCtx EXCEPT !.st = "live"]

NoLast ==
    [op |-> "none", req |-> 0, err |-> "none", called |-> FALSE,
     copied |-> 0, ret |-> 0, isEof |-> FALSE, steps |-> <<>>]

NoRel ==
    [stream |-> 0, buffer |-> 0, ctx |-> 0, detach |-> 0, path |-> 0,
     stale |-> 0]

NULL == 0

\* ---- the record of one context call --------------------------------------
NoIdx == -2
ApiOps == {"none", "free", "transcribe", "count", "text", "t0", "t1"}
Selectors == {"absent", "auto", "en", "ja"}

\* whisper_full_default_params(WHISPER_SAMPLING_GREEDY): the engine's
\* defaults, written "default" where the bridge never reads them
DefaultParams ==
    [n_threads |-> 0, language |-> "default", detect_language |-> FALSE]

\* op, h, i: the call and its arguments; eng: engine functions it called;
\* nFree: whisper_free calls made so far on the context behind h;
\* idx: the index it handed to a per-segment engine accessor; str / num:
\* the jstring / jint / jlong it returned; sel, nthreads: fullTranscribe's
\* language and thread arguments; pcm, lang: the borrowed array elements and
\* string characters; nRelPcm, nRelLang: their releases; p: the parameters
\* handed to whisper_full; run: how far fullTranscribe got; status:
\* whisper_full's result; log: the final log line; out: what the caller
\* receives
NoApi ==
    [op |-> "none", h |-> NULL, i |-> 0, eng |-> {}, idx |-> NoIdx,
     nFree |-> 0, str |-> "", num |-> 0, sel |-> "absent", nthreads |-> 0,
     pcm |-> "none", lang |-> "none", nRelPcm |-> 0, nRelLang |-> 0,
     p |-> DefaultParams, run |-> "none", status |-> 0, log |-> "none",
     out |-> "void"]

\* further host threads: pc is where thread c stands ("idle" outside the
\* bridge, "run" inside fullTranscribe), a the record of its call, waited
\* whether it started the call only after every other call on the same
\* handle had returned
Callers == 1..NumCallers
NoCall == [pc |-> "idle", a |-> NoApi, waited |-> FALSE]

\* ---- the engine's whisper_context storage --------------------------------
Addrs == 1..NumAddrs

\* storage not in use
NoContext == [st |-> "free", nseg |-> 0]

\* a context as the constructor leaves it: no run yet, no segments
NewContext == [st |-> "live", nseg |-> 0]

FreeAddrs == {a \in Addrs : heap[a].st = "free"}
LiveAddrs == {a \in Addrs : heap[a].st = "live"}

\* what whisper_init_with_params / whisper_init_from_file_with_params can
\* return: NULL, or on success a pointer to storage not in use
EngineCtx(ok) == IF ok THEN FreeAddrs ELSE {NULL}

\* the heap after the constructor returned ctx
Constructed(ctx) ==
    IF ctx = NULL THEN heap ELSE [heap EXCEPT ![ctx] = NewContext]

\* the handle with a slip: the pointer is narrowed and loses its high bits
handle_of_narrowed(ctx) == ctx % NumAddrs

\* return (jlong)ctx
handle_of(ctx) == ctx

\* whether a failing JNI call leaves a Java exception pending: GetMethodID
\* and NewByteArray throw; for the character / element getters the JNI
\* specification only promises NULL
Throws(step) ==
    CASE step \in {"GetMethodID", "NewByteArray"} -> {TRUE}
      [] step \in {"chars", "GetFloatArrayElements"} -> BOOLEAN
      [] OTHER -> {FALSE}

\* the exception state a JNI call returns with when `step` failed
Pending(step) ==
    {[t \in Threads |-> t = HostThread /\ x] : x \in Throws(step)}

Init ==
    /\ build \in Builds
    /\ pc = "idle"
    /\ thr = FreshThreads
    /\ exc = [t \in Threads |-> FALSE]
    /\ inp = NoCtx
    /\ gref = [stream |-> "none", buffer |-> "none"]
    /\ nRel = NoRel
    /\ asset = [st |-> "none", nClose |-> 0]
    /\ pathChars = "none"
    /\ data = <<>>
    /\ pos = 0
    /\ buf = [i \in 1..BufLen |-> 0]
    /\ delivered = <<>>
    /\ last = NoLast
    /\ eofSeen = FALSE
    /\ regular = TRUE
    /\ engClosed = 0
    /\ ret = NoRet
    /\ heap = [a \in Addrs |-> NoContext]
    /\ api = NoApi
    /\ calls = [c \in Callers |-> NoCall]

\* ---- ExecutionContextAccessor ------------------------------------------
\* get_env_from_jvm(jvm, &flag): tstate is the calling thread's registration,
\* attachOk whether AttachCurrentThread would succeed, hasFlag whether the
\* caller passed a non-NULL attached_by_us pointer.  jni.c has no flag.
get_env_from_jvm(jvm, tstate, attachOk, flag, hasFlag) ==
    IF ~jvm THEN [env |-> FALSE, attached |-> FALSE, flag |-> flag]
    ELSE IF tstate # "none" THEN [env |-> TRUE, attached |-> FALSE, flag |-> flag]
    ELSE IF ~attachOk THEN [env |-> FALSE, attached |-> FALSE, flag |-> flag]
    ELSE [env |-> TRUE, attached |-> TRUE,
          flag |-> IF hasFlag /\ build = "whisperLib" THEN 1 ELSE flag]

\* ---- host InputStream.read(byte[], 0, chunk) ---------------------------
\* An outcome: fault (exception thrown), n (the reported count) and k (bytes
\* really written to the array and consumed from the stream).
HostOutcomes(chunk) ==
    LET rem == Len(data) - pos
        m == Min(chunk, rem)
    IN  {[fault |-> TRUE, n |-> 0, k |-> 0]}
        \cup (IF chunk = 0 THEN {[fault |-> FALSE, n |-> 0, k |-> 0]} ELSE {})
        \cup (IF chunk > 0 /\ rem = 0
                THEN {[fault |-> FALSE, n |-> -1, k |-> 0]} ELSE {})
        \cup {[fault |-> FALSE, n |-> k, k |-> k] : k \in 1..m}
        \cup (IF m >= 1 THEN {[fault |-> FALSE, n |-> chunk + 1, k |-> m]}
                        ELSE {})

\* the array after the stream stored k bytes at offset 0
HostStore(k) ==
    [i \in 1..BufLen |-> IF i <= k THEN data[pos + i] ELSE buf[i]]

\* ---- StreamLoaderAdapter ------------------------------------------------
\* const jint chunk = (read_size > buf_len) ? buf_len : read_size
chunk_of(read_size, buf_len) ==
    IF read_size > buf_len THEN buf_len ELSE read_size

\* is_read with a slip: a successful read clears the end-of-stream flag
is_read_resets_eof(is, tstate, read_size, attachOk, h, pinOk) ==
    LET e == get_env_from_jvm(is.jvm, tstate, attachOk, is.attached_by_us, TRUE)
        chunk == chunk_of(read_size, is.buf_len)
        quiet == [called |-> FALSE, attached |-> e.attached, flag |-> e.flag,
                  chunk |-> 0, eof |-> is.eof, cleared |-> FALSE,
                  copied |-> 0, ret |-> 0, err |-> "env", steps |-> <<>>]
        after == [quiet EXCEPT !.called = TRUE, !.chunk = chunk,
                               !.err = "none"]
    IN  IF is.st = "none" \/ ~is.jvm THEN quiet
        ELSE IF ~e.env THEN quiet
        ELSE IF h.fault
          THEN [after EXCEPT !.eof = 1, !.cleared = TRUE, !.err = "fault"]
        ELSE IF h.n <= 0 THEN [after EXCEPT !.eof = 1]
        ELSE IF ~pinOk THEN [after EXCEPT !.eof = 1, !.err = "pin"]
        ELSE [after EXCEPT !.copied = h.n, !.ret = h.n, !.eof = 0,
                           !.steps = <<"pin", "copy", "unpin">>]

\* is_read with a slip: the exception is described but not cleared
is_read_no_clear(is, tstate, read_size, attachOk, h, pinOk) ==
    LET e == get_env_from_jvm(is.jvm, tstate, attachOk, is.attached_by_us, TRUE)
        chunk == chunk_of(read_size, is.buf_len)
        quiet == [called |-> FALSE, attached |-> e.attached, flag |-> e.flag,
                  chunk |-> 0, eof |-> is.eof, cleared |-> FALSE,
                  copied |-> 0, ret |-> 0, err |-> "env", steps |-> <<>>]
        after == [quiet EXCEPT !.called = TRUE, !.chunk = chunk,
                               !.err = "none"]
    IN  IF is.st = "none" \/ ~is.jvm THEN quiet
        ELSE IF ~e.env THEN quiet
        ELSE IF h.fault THEN [after EXCEPT !.eof = 1, !.err = "fault"]
        ELSE IF h.n <= 0 THEN [after EXCEPT !.eof = 1]
        ELSE IF ~pinOk THEN [after EXCEPT !.eof = 1, !.err = "pin"]
        ELSE [after EXCEPT !.copied = h.n, !.ret = h.n,
                           !.steps = <<"pin", "copy", "unpin">>]

\* is_read with a slip: memcpy of chunk bytes instead of the n bytes read
is_read_copies_chunk(is, tstate, read_size, attachOk, h, pinOk) ==
    LET e == get_env_from_jvm(is.jvm, tstate, attachOk, is.attached_by_us, TRUE)
        chunk == chunk_of(read_size, is.buf_len)
        quiet == [called |-> FALSE, attached |-> e.attached, flag |-> e.flag,
                  chunk |-> 0, eof |-> is.eof, cleared |-> FALSE,
                  copied |-> 0, ret |-> 0, err |-> "env", steps |-> <<>>]
        after == [quiet EXCEPT !.called = TRUE, !.chunk = chunk,
                               !.err = "none"]
    IN  IF is.st = "none" \/ ~is.jvm THEN quiet
        ELSE IF ~e.env THEN quiet
        ELSE IF h.fault
          THEN [after EXCEPT !.eof = 1, !.cleared = TRUE, !.err = "fault"]
        ELSE IF h.n <= 0 THEN [after EXCEPT !.eof = 1]
        ELSE IF ~pinOk THEN [after EXCEPT !.eof = 1, !.err = "pin"]
        ELSE [after EXCEPT !.copied = chunk, !.ret = chunk,
                           !.steps = <<"pin", "copy", "unpin">>]

\* is_read with a slip: the elements are released before the memcpy
is_read_unpins_first(is, tstate, read_size, attachOk, h, pinOk) ==
    LET e == get_env_from_jvm(is.jvm, tstate, attachOk, is.attached_by_us, TRUE)
        chunk == chunk_of(read_size, is.buf_len)
        quiet == [called |-> FALSE, attached |-> e.attached, flag |-> e.flag,
                  chunk |-> 0, eof |-> is.eof, cleared |-> FALSE,
                  copied |-> 0, ret |-> 0, err |-> "env", steps |-> <<>>]
        after == [quiet EXCEPT !.called = TRUE, !.chunk = chunk,
                               !.err = "none"]
    IN  IF is.st = "none" \/ ~is.jvm THEN quiet
        ELSE IF ~e.env THEN quiet
        ELSE IF h.fault
          THEN [after EXCEPT !.eof = 1, !.cleared = TRUE, !.err = "fault"]
        ELSE IF h.n <= 0 THEN [after EXCEPT !.eof = 1]
        ELSE IF ~pinOk THEN [after EXCEPT !.eof = 1, !.err = "pin"]
        ELSE [after EXCEPT !.copied = h.n, !.ret = h.n,
                           !.steps = <<"pin", "unpin", "copy">>]

\* is_read: what one call decides, given the calling thread's registration,
\* the requested size, and what the JVM does (attachOk, host outcome h, pinOk);
\* steps: GetByteArrayElements, memcpy and ReleaseByteArrayElements in the
\* order the call makes them
is_read(is, tstate, read_size, attachOk, h, pinOk) ==
    LET e == get_env_from_jvm(is.jvm, tstate, attachOk, is.attached_by_us, TRUE)
        chunk == chunk_of(read_size, is.buf_len)
        quiet == [called |-> FALSE, attached |-> e.attached, flag |-> e.flag,
                  chunk |-> 0, eof |-> is.eof, cleared |-> FALSE,
                  copied |-> 0, ret |-> 0, err |-> "env", steps |-> <<>>]
        after == [quiet EXCEPT !.called = TRUE, !.chunk = chunk,
                               !.err = "none"]
    IN  IF is.st = "none" \/ ~is.jvm THEN quiet
        ELSE IF ~e.env THEN quiet
        ELSE IF h.fault
          THEN [after EXCEPT !.eof = 1, !.cleared = TRUE, !.err = "fault"]
        ELSE IF h.n <= 0 THEN [after EXCEPT !.eof = 1]
        ELSE IF ~pinOk THEN [after EXCEPT !.eof = 1, !.err = "pin"]
        ELSE [after EXCEPT !.copied = h.n, !.ret = h.n,
                           !.steps = <<"pin", "copy", "unpin">>]

\* is_eof
is_eof(is) == IF is.st # "none" THEN is.eof # 0 ELSE TRUE

\* is_close: which releases one call performs
is_close(is, tstate, attachOk) ==
    LET e == get_env_from_jvm(is.jvm, tstate, attachOk, 0, FALSE)
    IN  IF is.st = "none"
        THEN [attached |-> FALSE, delStream |-> FALSE, delBuffer |-> FALSE,
              detach |-> FALSE, free |-> FALSE]
        ELSE [attached |-> e.attached,
              delStream |-> e.env /\ is.input_stream,
              delBuffer |-> e.env /\ is.buffer_gl,
              detach |-> build = "whisperLib" /\ is.jvm /\ is.attached_by_us # 0,
              free |-> TRUE]

\* what a read of the context's fields yields: the fields themselves while the
\* storage is allocated, anything once it has been freed
StaleCtx ==
    {[st |-> "freed", jvm |-> j, input_stream |-> s, mid_read |-> FALSE,
      buffer_gl |-> b, buf_len |-> 0, eof |-> 0, attached_by_us |-> a] :
        j \in BOOLEAN, s \in BOOLEAN, b \in BOOLEAN, a \in {0, 1}}

FieldsRead(is) == IF is.st = "freed" THEN StaleCtx ELSE {is}

DeleteGlobalRef(g) == IF g = "live" THEN "deleted" ELSE g

\* the state after is_close(is) ran on thread t; S = [thr, gref, nRel, inp]
CloseState(f, t, attachOk, S) ==
    LET c == is_close(f, S.thr[t], attachOk)
        b2i(b) == IF b THEN 1 ELSE 0
    IN  [thr |-> [S.thr EXCEPT ![t] =
                    IF c.detach THEN "none"
                    ELSE IF c.attached THEN "bridge" ELSE @],
         gref |-> [stream |-> IF c.delStream THEN DeleteGlobalRef(S.gref.stream)
                                             ELSE S.gref.stream,
                   buffer |-> IF c.delBuffer THEN DeleteGlobalRef(S.gref.buffer)
                                             ELSE S.gref.buffer],
         nRel |-> [stream |-> S.nRel.stream + b2i(c.delStream),
                   buffer |-> S.nRel.buffer + b2i(c.delBuffer),
                   ctx |-> S.nRel.ctx + b2i(c.free),
                   detach |-> S.nRel.detach + b2i(c.detach),
                   path |-> S.nRel.path,
                   stale |-> S.nRel.stale],
         inp |-> IF c.free THEN [NoCtx EXCEPT !.st = "freed"] ELSE S.inp]

\* ---- createFromStream ---------------------------------------------------
StreamFails ==
    {"none", "streamNull", "calloc", "GetJavaVM", "NewGlobalRef",
     "GetObjectClass", "GetMethodID", "NewByteArray", "NewGlobalRefBuf"}

\* the context as built when step `fail` is reached
CtxAt(fail) ==
    LET c1 == [calloc_ctx EXCEPT !.jvm = TRUE]
        c2 == [c1 EXCEPT !.input_stream = TRUE]
        c3 == [c2 EXCEPT !.mid_read = TRUE]
        c4 == [c3 EXCEPT !.buf_len = BufLen]
        c5 == [c4 EXCEPT !.buffer_gl = TRUE, !.attached_by_us = 0]
    IN  CASE fail \in {"streamNull", "calloc"} -> NoCtx
          [] fail = "GetJavaVM" -> calloc_ctx
          [] fail = "NewGlobalRef" -> c1
          [] fail \in {"GetObjectClass", "GetMethodID"} -> c2
          [] fail \in {"NewByteArray", "NewGlobalRefBuf"} -> c4
          [] OTHER -> c5

\* no load in progress: no source, no loader callback records
NoSource ==
    /\ data' = <<>>
    /\ pos' = 0
    /\ buf' = [i \in 1..BufLen |-> 0]
    /\ delivered' = <<>>
    /\ last' = NoLast
    /\ eofSeen' = FALSE
    /\ regular' = TRUE
    /\ engClosed' = 0

\* a load starts on a source holding some byte sequence
FreshSource(ok) ==
    /\ \E len \in 0..MaxData :
          /\ ~ok => len = 0
          /\ data' = [i \in 1..len |-> i]
    /\ pos' = 0
    /\ buf' = [i \in 1..BufLen |-> 0]
    /\ delivered' = <<>>
    /\ last' = NoLast
    /\ eofSeen' = FALSE
    /\ regular' = TRUE
    /\ engClosed' = 0

\* Java_..._initContextFromInputStream up to the call of
\* whisper_init_with_params; a failing step cleans up and returns 0
InitContextFromInputStream_Begin(fail) ==
    /\ pc = "idle"
    /\ thr[HostThread] = "host"
    /\ FreshSource(fail = "none")
    /\ LET c == CtxAt(fail)
           S0 == [thr |-> FreshThreads, nRel |-> NoRel, inp |-> c,
                  gref |-> [stream |-> IF c.input_stream THEN "live" ELSE "none",
                            buffer |-> IF c.buffer_gl THEN "live" ELSE "none"]]
           S1 == CASE fail \in {"streamNull", "calloc", "none"} -> S0
                   [] fail \in {"GetJavaVM", "NewGlobalRef"} ->
                        [S0 EXCEPT !.inp = [NoCtx EXCEPT !.st = "freed"],
                                   !.nRel.ctx = 1]
                   [] OTHER -> CloseState(c, HostThread, TRUE, S0)
       IN  /\ thr' = S1.thr
           /\ gref' = S1.gref
           /\ nRel' = S1.nRel
           /\ inp' = S1.inp
           /\ pc' = IF fail = "none" THEN "stream" ELSE "idle"
           /\ ret' = IF fail = "none" THEN NoRet ELSE 0
    /\ asset' = [st |-> "none", nClose |-> 0]
    /\ pathChars' = "none"
    /\ exc' \in Pending(fail)
    /\ api' = NoApi
    /\ UNCHANGED <<calls, build, heap>>

\* the engine calls loader.read(ctx, output, read_size) on thread t
EngineRead(t, read_size) ==
    /\ pc = "stream"
    /\ engClosed = 0
    /\ \E h \in HostOutcomes(chunk_of(read_size, inp.buf_len)),
          attachOk \in (IF thr[t] = "none" THEN BOOLEAN ELSE {TRUE}) :
       \E pinOk \in (IF h.n > 0 /\ ~h.fault THEN BOOLEAN ELSE {TRUE}) :
        LET r == is_read(inp, thr[t], read_size, attachOk, h, pinOk)
            k == IF r.called THEN h.k ELSE 0
            nb == IF r.called THEN HostStore(k) ELSE buf
            ok == /\ regular
                  /\ ~(r.called /\ ~h.fault /\ h.n > r.chunk)
                  /\ r.err # "pin"
        IN  /\ regular' = ok
            /\ thr' = [thr EXCEPT ![t] = IF r.attached THEN "bridge" ELSE @]
            /\ inp' = [inp EXCEPT !.eof = r.eof, !.attached_by_us = r.flag]
            /\ exc' = [exc EXCEPT ![t] = r.called /\ h.fault /\ ~r.cleared]
            /\ pos' = pos + k
            /\ buf' = nb
            /\ delivered' = IF ok /\ r.copied <= BufLen
                               THEN delivered \o [i \in 1..r.copied |-> nb[i]]
                               ELSE <<>>
            /\ last' = [op |-> "read", req |-> read_size,
                        err |-> r.err, called |-> r.called,
                        copied |-> r.copied, ret |-> r.ret, isEof |-> FALSE,
                        steps |-> r.steps]
    /\ UNCHANGED <<calls, heap, api, build, pc, gref, nRel, asset, pathChars, data, eofSeen,
                   engClosed, ret>>

\* the engine calls loader.eof(ctx)
EngineEof ==
    /\ pc = "stream"
    /\ engClosed = 0
    /\ last' = [NoLast EXCEPT !.op = "eof", !.isEof = is_eof(inp)]
    /\ eofSeen' = (eofSeen \/ is_eof(inp))
    /\ UNCHANGED <<calls, heap, api, build, pc, thr, exc, inp, gref, nRel, asset, pathChars,
                   data, pos, buf, delivered, regular, engClosed, ret>>

\* the engine calls loader.close(ctx) on thread t
EngineClose(t, attachOk) ==
    /\ pc = "stream"
    /\ engClosed = 0
    /\ thr[t] # "none" => attachOk
    /\ LET S == CloseState(inp, t, attachOk,
                    [thr |-> thr, gref |-> gref, nRel |-> nRel, inp |-> inp])
       IN  /\ thr' = S.thr
           /\ gref' = S.gref
           /\ nRel' = S.nRel
           /\ inp' = S.inp
    /\ engClosed' = 1
    /\ last' = [NoLast EXCEPT !.op = "close"]
    /\ UNCHANGED <<calls, heap, api, build, pc, exc, asset, pathChars, data, pos, buf,
                   delivered, eofSeen, regular, ret>>

\* whisper_init_with_params returns; the rest of
\* Java_..._initContextFromInputStream runs on the calling thread.
\* A successful load has closed its loader.
InitContextFromInputStream_End(ok, attachOk) ==
    /\ pc = "stream"
    /\ ok => engClosed >= 1
    /\ (ok \/ thr[HostThread] # "none") => attachOk
    /\ NoSource
    /\ \E ctx \in EngineCtx(ok) :
          /\ heap' = Constructed(ctx)
          /\ ret' = handle_of(ctx)
    /\ IF ok
         THEN UNCHANGED <<thr, gref, nRel, inp>>
         ELSE \E f \in FieldsRead(inp) :
                    LET S == CloseState(f, HostThread, attachOk,
                                [thr |-> thr, gref |-> gref, nRel |-> nRel,
                                 inp |-> inp])
                    IN  /\ thr' = S.thr
                        /\ gref' = S.gref
                        /\ nRel' = S.nRel
                        /\ inp' = S.inp
    /\ pc' = "idle"
    /\ UNCHANGED <<calls, build, exc, asset, pathChars, api>>

\* ---- AssetLoaderAdapter -------------------------------------------------
\* AAsset_read(asset, output, read_size): negative on error, else the count
AssetOutcomes(read_size) ==
    LET rem == Len(data) - pos
    IN  {-1}
        \cup (IF rem = 0 \/ read_size = 0 THEN {0} ELSE {})
        \cup 1..Min(read_size, rem)

\* asset_read: the count reported to the engine for AAsset_read's result r
asset_read(r) == IF r < 0 THEN 0 ELSE IF r > 0 THEN r ELSE 0

\* asset_eof: AAsset_getRemainingLength64(asset) <= 0
asset_eof == Len(data) - pos <= 0

\* asset_close: if (ctx) AAsset_close(ctx); ctx is the engine's copy of the
\* pointer and stays non-null after the asset is closed
asset_close(a) ==
    IF a.st = "none" THEN a
    ELSE [st |-> "closed", nClose |-> a.nClose + 1]

AssetFails == {"none", "pathNull", "chars", "mgrNull", "fromJava", "open"}

\* Java_..._initContextFromAsset and whisper_init_from_asset up to the call
\* of whisper_init_with_params
InitContextFromAsset_Begin(fail) ==
    /\ pc = "idle"
    /\ thr[HostThread] = "host"
    /\ FreshSource(fail = "none")
    /\ pathChars' = CASE fail \in {"pathNull", "chars"} -> "none"
                      [] fail = "none" -> "held"
                      [] OTHER -> "released"
    /\ asset' = [st |-> IF fail = "none" THEN "open" ELSE "none", nClose |-> 0]
    /\ pc' = IF fail = "none" THEN "asset" ELSE "idle"
    /\ ret' = IF fail = "none" THEN NoRet ELSE 0
    /\ inp' = NoCtx
    /\ gref' = [stream |-> "none", buffer |-> "none"]
    /\ nRel' = [NoRel EXCEPT !.path = IF pathChars' = "released" THEN 1 ELSE 0]
    /\ thr' = FreshThreads
    /\ exc' \in Pending(fail)
    /\ api' = NoApi
    /\ UNCHANGED <<calls, build, heap>>

\* the engine calls loader.read on the asset loader
AssetRead(read_size) ==
    /\ pc = "asset"
    /\ engClosed = 0
    /\ \E r \in AssetOutcomes(read_size) :
        LET k == IF r > 0 THEN r ELSE 0
        IN  /\ pos' = pos + k
            /\ delivered' = delivered \o [i \in 1..k |-> data[pos + i]]
            /\ last' = [op |-> "aread", req |-> read_size,
                        err |-> IF r < 0 THEN "neg" ELSE "none",
                        called |-> TRUE, copied |-> k, ret |-> asset_read(r),
                        isEof |-> FALSE, steps |-> <<>>]
    /\ UNCHANGED <<calls, heap, api, build, pc, thr, exc, inp, gref, nRel, asset, pathChars,
                   data, buf, eofSeen, regular, engClosed, ret>>

\* the engine calls loader.eof on the asset loader
AssetEof ==
    /\ pc = "asset"
    /\ engClosed = 0
    /\ last' = [NoLast EXCEPT !.op = "aeof", !.isEof = asset_eof]
    /\ eofSeen' = (eofSeen \/ asset_eof)
    /\ UNCHANGED <<calls, heap, api, build, pc, thr, exc, inp, gref, nRel, asset, pathChars,
                   data, pos, buf, delivered, regular, engClosed, ret>>

\* the engine calls loader.close on the asset loader
AssetClose ==
    /\ pc = "asset"
    /\ engClosed = 0
    /\ asset' = asset_close(asset)
    /\ engClosed' = 1
    /\ last' = [NoLast EXCEPT !.op = "aclose"]
    /\ UNCHANGED <<calls, heap, api, build, pc, thr, exc, inp, gref, nRel, pathChars, data, pos,
                   buf, delivered, eofSeen, regular, ret>>

\* the wrapper with a slip: the path is released only when a context came back
InitContextFromAsset_End_keeps(ok) ==
    /\ pc = "asset"
    /\ ok => engClosed >= 1
    /\ NoSource
    /\ \E ctx \in EngineCtx(ok) :
          /\ heap' = Constructed(ctx)
          /\ ret' = handle_of(ctx)
    /\ pathChars' = IF ok THEN "released" ELSE pathChars
    /\ nRel' = [nRel EXCEPT !.path = IF ok THEN @ + 1 ELSE @]
    /\ pc' = "idle"
    /\ UNCHANGED <<calls, build, thr, exc, inp, gref, asset, api>>

\* whisper_init_with_params returns to whisper_init_from_asset, which returns
\* ctx; the JNI wrapper releases the path and returns it
InitContextFromAsset_End(ok) ==
    /\ pc = "asset"
    /\ ok => engClosed >= 1
    /\ NoSource
    /\ \E ctx \in EngineCtx(ok) :
          /\ heap' = Constructed(ctx)
          /\ ret' = handle_of(ctx)
    /\ pathChars' = "released"
    /\ nRel' = [nRel EXCEPT !.path = @ + 1]
    /\ pc' = "idle"
    /\ UNCHANGED <<calls, build, thr, exc, inp, gref, asset, api>>

\* ---- FileLoaderAdapter --------------------------------------------------
FileFails == {"none", "pathNull", "chars"}

\* the calls of Java_..._initContext that touch the path characters, in
\* program order, once GetStringUTFChars has succeeded; ok: the engine
\* returned a context
initContext_path(ok) ==
    <<"GetStringUTFChars", "whisper_init_from_file_with_params",
      "ReleaseStringUTFChars">> \o (IF ok THEN <<"LOGI">> ELSE <<>>)

\* the calls of s that read the characters after they were released
stale_reads(s) ==
    {i \in 1..Len(s) :
        /\ s[i] \in {"whisper_init_from_file_with_params", "LOGI"}
        /\ \E j \in 1..(i - 1) : s[j] = "ReleaseStringUTFChars"}

\* Java_..._initContext: the engine opens the path itself
InitContext(fail, ok) ==
    /\ pc = "idle"
    /\ thr[HostThread] = "host"
    /\ NoSource
    /\ fail # "none" => ~ok
    /\ \E ctx \in EngineCtx(ok) :
          /\ heap' = Constructed(ctx)
          /\ ret' = handle_of(ctx)
    /\ pathChars' = IF fail = "none" THEN "released" ELSE "none"
    /\ nRel' = [NoRel EXCEPT
                  !.path = IF fail = "none" THEN 1 ELSE 0,
                  !.stale = IF fail = "none"
                              THEN Cardinality(stale_reads(initContext_path(ok)))
                              ELSE 0]
    /\ inp' = NoCtx
    /\ gref' = [stream |-> "none", buffer |-> "none"]
    /\ asset' = [st |-> "none", nClose |-> 0]
    /\ thr' = FreshThreads
    /\ exc' \in Pending(fail)
    /\ api' = NoApi
    /\ UNCHANGED <<calls, build, pc>>

\* ---- ModelContext calls --------------------------------------------------
\* a context call is a new JNI call: the records of the last construction
\* attempt are cleared
NoAttempt ==
    /\ NoSource
    /\ inp' = NoCtx
    /\ gref' = [stream |-> "none", buffer |-> "none"]
    /\ nRel' = NoRel
    /\ asset' = [st |-> "none", nClose |-> 0]
    /\ pathChars' = "none"
    /\ thr' = FreshThreads
    /\ ret' = NoRet

NoException == [t \in Threads |-> FALSE]

\* handles the host holds for contexts it has not freed
Handles == {NULL} \cup LiveAddrs

\* the handle the host has just freed
FreedHandles ==
    IF api.op = "free" /\ api.h # NULL /\ api.nFree = 1 THEN {api.h} ELSE {}

\* freeContext with a slip: no test of ptr
freeContext_unguarded(ptr) == [eng |-> {"whisper_free"}]

\* Java_..._freeContext: if (ptr) whisper_free(ptr)
freeContext(ptr) == [eng |-> IF ptr # NULL THEN {"whisper_free"} ELSE {}]

\* whisper_free(ctx): the storage goes back to the allocator
Freed(ctx) ==
    IF ctx = NULL THEN heap
    ELSE [heap EXCEPT ![ctx] = NoContext]

FreeContext(h) ==
    /\ pc = "idle"
    /\ LET r == freeContext(h)
       IN  /\ heap' = IF "whisper_free" \in r.eng THEN Freed(h) ELSE heap
           /\ api' = [NoApi EXCEPT
                          !.op = "free", !.h = h, !.eng = r.eng,
                          !.nFree = (IF h \in FreedHandles THEN api.nFree ELSE 0)
                                    + (IF "whisper_free" \in r.eng THEN 1 ELSE 0)]
    /\ exc' = NoException
    /\ NoAttempt
    /\ UNCHANGED <<calls, build, pc>>

\* ---- segment accessors ---------------------------------------------------
\* the engine's accessors; an index outside [0, n_segments) reads outside
\* the result vector
InRange(ctx, i) == ctx # NULL /\ i >= 0 /\ i < heap[ctx].nseg

whisper_full_get_segment_text(ctx, i) ==
    IF InRange(ctx, i) THEN {"text", "null"} ELSE {"null", "garbage"}

whisper_full_get_segment_t0(ctx, i) ==
    IF InRange(ctx, i) THEN {i} ELSE {-1, 0}

whisper_full_get_segment_t1(ctx, i) ==
    IF InRange(ctx, i) THEN {i + 1} ELSE {-1, 0}

\* Java_..._getTextSegmentCount
getTextSegmentCount(ptr) ==
    IF ptr # NULL
      THEN [eng |-> {"whisper_full_n_segments"}, num |-> heap[ptr].nseg]
      ELSE [eng |-> {}, num |-> 0]

\* Java_..._getTextSegment; s is what the engine's accessor returns if called
getTextSegment(ptr, i, s) ==
    LET none == [eng |-> {}, idx |-> NoIdx, str |-> ""]
        text == IF s = "null" THEN "" ELSE s
    IN  IF ptr = NULL THEN none
        ELSE IF build = "jni"
          THEN [eng |-> {"whisper_full_get_segment_text"}, idx |-> i,
                str |-> text]
        ELSE IF i < 0 \/ i >= heap[ptr].nseg
          THEN [none EXCEPT !.eng = {"whisper_full_n_segments"}]
        ELSE [eng |-> {"whisper_full_n_segments",
                       "whisper_full_get_segment_text"},
              idx |-> i, str |-> text]

\* Java_..._getTextSegmentT0; v is what the engine's accessor returns
getTextSegmentT0(ptr, i, v) ==
    LET none == [eng |-> {}, idx |-> NoIdx, num |-> 0]
    IN  IF ptr = NULL THEN none
        ELSE IF build = "jni"
          THEN [eng |-> {"whisper_full_get_segment_t0"}, idx |-> i,
                num |-> v]
        ELSE IF i < 0 \/ i >= heap[ptr].nseg
          THEN [none EXCEPT !.eng = {"whisper_full_n_segments"}]
        ELSE [eng |-> {"whisper_full_n_segments",
                       "whisper_full_get_segment_t0"},
              idx |-> i, num |-> v]

\* Java_..._getTextSegmentT1
getTextSegmentT1(ptr, i, v) ==
    LET none == [eng |-> {}, idx |-> NoIdx, num |-> 0]
    IN  IF ptr = NULL THEN none
        ELSE IF build = "jni"
          THEN [eng |-> {"whisper_full_get_segment_t1"}, idx |-> i,
                num |-> v]
        ELSE IF i < 0 \/ i >= heap[ptr].nseg
          THEN [none EXCEPT !.eng = {"whisper_full_n_segments"}]
        ELSE [eng |-> {"whisper_full_n_segments",
                       "whisper_full_get_segment_t1"},
              idx |-> i, num |-> v]

GetTextSegmentCount(h) ==
    /\ pc = "idle"
    /\ LET r == getTextSegmentCount(h)
       IN  api' = [NoApi EXCEPT !.op = "count", !.h = h, !.eng = r.eng,
                                !.num = r.num]
    /\ exc' = NoException
    /\ NoAttempt
    /\ UNCHANGED <<calls, build, pc, heap>>

GetTextSegment(h, i) ==
    /\ pc = "idle"
    /\ \E s \in whisper_full_get_segment_text(h, i) :
        LET r == getTextSegment(h, i, s)
        IN  api' = [NoApi EXCEPT !.op = "text", !.h = h, !.i = i,
                                 !.eng = r.eng, !.idx = r.idx, !.str = r.str]
    /\ exc' = NoException
    /\ NoAttempt
    /\ UNCHANGED <<calls, build, pc, heap>>

GetTextSegmentT0(h, i) ==
    /\ pc = "idle"
    /\ \E v \in whisper_full_get_segment_t0(h, i) :
        LET r == getTextSegmentT0(h, i, v)
        IN  api' = [NoApi EXCEPT !.op = "t0", !.h = h, !.i = i,
                                 !.eng = r.eng, !.idx = r.idx, !.num = r.num]
    /\ exc' = NoException
    /\ NoAttempt
    /\ UNCHANGED <<calls, build, pc, heap>>

GetTextSegmentT1(h, i) ==
    /\ pc = "idle"
    /\ \E v \in whisper_full_get_segment_t1(h, i) :
        LET r == getTextSegmentT1(h, i, v)
        IN  api' = [NoApi EXCEPT !.op = "t1", !.h = h, !.i = i,
                                 !.eng = r.eng, !.idx = r.idx, !.num = r.num]
    /\ exc' = NoException
    /\ NoAttempt
    /\ UNCHANGED <<calls, build, pc, heap>>

\* ---- fullTranscribe -----------------------------------------------------
\* the normalisation with a slip: >= for >
n_threads_of_ge(nthreads) == IF nthreads >= 0 THEN nthreads ELSE 1

\* p.n_threads = (nthreads > 0) ? nthreads : 1
n_threads_of(nthreads) == IF nthreads > 0 THEN nthreads ELSE 1

\* the language choice with a slip: the strcmp test is inverted
language_of_inverted(p, lang) ==
    IF lang # "NULL" /\ lang = "auto"
      THEN [p EXCEPT !.language = lang, !.detect_language = FALSE]
      ELSE [p EXCEPT !.detect_language = TRUE]

\* if (lang && strcmp(lang, "auto") != 0) { p.language = lang;
\* p.detect_language = false; } else { p.detect_language = true; }
\* lang is the marshaled string, or "NULL"
language_of(p, lang) ==
    IF lang # "NULL" /\ lang # "auto"
      THEN [p EXCEPT !.language = lang, !.detect_language = FALSE]
      ELSE [p EXCEPT !.detect_language = TRUE]

\* the whisper_full_params the bridge builds
full_params(nthreads, lang) ==
    language_of([DefaultParams EXCEPT !.n_threads = n_threads_of(nthreads)],
                lang)

\* const char *lang = NULL; if (langStr) lang = GetStringUTFChars(...)
lang_chars(sel, charsOk) ==
    IF sel # "absent" /\ charsOk THEN sel ELSE "NULL"

\* the tail with a slip: an early return when whisper_full failed
fullTranscribe_tail_early(a, status) ==
    LET relLang == a.sel # "absent" /\ a.lang = "held"
        done == [a EXCEPT !.status = status, !.run = "returned",
                          !.out = "void", !.sel = "absent", !.nthreads = 0,
                          !.p = DefaultParams]
    IN  IF status # 0 THEN [done EXCEPT !.log = "whisper_full() failed"]
        ELSE [done EXCEPT !.eng = @ \cup {"whisper_print_timings"},
                          !.log = "timings",
                          !.lang = IF relLang THEN "released" ELSE @,
                          !.nRelLang = IF relLang THEN @ + 1 ELSE @,
                          !.pcm = "released",
                          !.nRelPcm = @ + 1]

\* the tail with a different contract: the status is handed to the caller
fullTranscribe_tail_reports(a, status) ==
    LET relLang == a.sel # "absent" /\ a.lang = "held"
    IN  [a EXCEPT !.status = status,
                  !.eng = @ \cup (IF status # 0 THEN {}
                                  ELSE {"whisper_print_timings"}),
                  !.log = IF status # 0 THEN "whisper_full() failed"
                                        ELSE "timings",
                  !.lang = IF relLang THEN "released" ELSE @,
                  !.nRelLang = IF relLang THEN @ + 1 ELSE @,
                  !.pcm = "released",
                  !.nRelPcm = @ + 1,
                  !.run = "returned",
                  !.out = IF status # 0 THEN "failure" ELSE "success",
                  !.sel = "absent",
                  !.nthreads = 0,
                  !.p = DefaultParams]

\* the part of fullTranscribe after whisper_full returned status: the log
\* line, then the two releases; the arguments and the parameter block go out
\* of scope
fullTranscribe_tail(a, status) ==
    LET relLang == a.sel # "absent" /\ a.lang = "held"
    IN  [a EXCEPT !.status = status,
                  !.eng = @ \cup (IF status # 0 THEN {}
                                  ELSE {"whisper_print_timings"}),
                  !.log = IF status # 0 THEN "whisper_full() failed"
                                        ELSE "timings",
                  !.lang = IF relLang THEN "released" ELSE @,
                  !.nRelLang = IF relLang THEN @ + 1 ELSE @,
                  !.pcm = "released",
                  !.nRelPcm = @ + 1,
                  !.run = "returned",
                  !.out = "void",
                  !.sel = "absent",
                  !.nthreads = 0,
                  !.p = DefaultParams]

\* Java_..._fullTranscribe up to the call of whisper_full: the record of the
\* call when control reaches whisper_full or the call has returned early.
\* audio: the array is non-null, pinOk / charsOk: GetFloatArrayElements /
\* GetStringUTFChars succeed.  (The translate flag is copied into the
\* parameters and plays no part in what follows; it is left out.)
fullTranscribe_head(h, audio, sel, nthreads, pinOk, charsOk) ==
    LET a0 == [NoApi EXCEPT !.op = "transcribe", !.h = h, !.sel = sel,
                            !.nthreads = nthreads]
        lang == lang_chars(sel, charsOk)
    IN  IF h = NULL \/ ~audio \/ ~pinOk
          THEN [a0 EXCEPT !.run = "returned"]
          ELSE [a0 EXCEPT
                  !.pcm = "held",
                  !.lang = IF lang # "NULL" THEN "held" ELSE "none",
                  !.p = full_params(nthreads, lang),
                  !.eng = {"whisper_reset_timings", "whisper_full"},
                  !.run = "running"]

\* where the calling thread stands, with a slip: whisper_full is handed to
\* another thread and the call returns at once
caller_pc_detached(a) == "idle"

\* where the calling thread stands: whisper_full runs on the calling thread,
\* which is inside the call for as long as the engine runs
caller_pc(a) == IF a.run = "running" THEN "run" ELSE "idle"

FullTranscribe_Begin(h, audio, sel, nthreads, pinOk, charsOk) ==
    /\ pc = "idle"
    /\ (h = NULL \/ ~audio) => pinOk
    /\ (h = NULL \/ ~audio \/ ~pinOk) => (sel = "absent" /\ nthreads = 0)
    /\ sel = "absent" => charsOk
    /\ api' = fullTranscribe_head(h, audio, sel, nthreads, pinOk, charsOk)
    /\ pc' = caller_pc(api')
    /\ exc' \in (IF h = NULL \/ ~audio THEN {NoException}
                 ELSE IF ~pinOk THEN Pending("GetFloatArrayElements")
                 ELSE IF sel # "absent" /\ ~charsOk THEN Pending("chars")
                 ELSE {NoException})
    /\ NoAttempt
    /\ UNCHANGED <<calls, build, heap>>

\* a further host thread c calls fullTranscribe(h, ...); waited: it does so
\* only when no other thread is inside a call on h
Call_Begin(c, h, audio, waited) ==
    /\ calls[c].pc = "idle"
    /\ waited => \A d \in Callers \ {c} :
                    ~(calls[d].pc = "run" /\ calls[d].a.h = h)
    /\ LET a == fullTranscribe_head(h, audio, "absent", 1, TRUE, TRUE)
       IN  calls' = [calls EXCEPT ![c] =
                       IF a.run = "running"
                         THEN [pc |-> caller_pc(a), a |-> a,
                               waited |-> waited]
                         ELSE NoCall]
    /\ UNCHANGED <<build, pc, thr, exc, inp, gref, nRel, asset, pathChars,
                   data, pos, buf, delivered, last, eofSeen, regular,
                   engClosed, ret, heap, api>>

\* whisper_full returns in thread c's call and the call returns; a call that
\* has returned leaves no record
Call_End(c, status, nseg) ==
    /\ calls[c].a.run = "running"
    /\ heap' = [heap EXCEPT ![calls[c].a.h].nseg = nseg]
    /\ fullTranscribe_tail(calls[c].a, status).run = "returned"
    /\ calls' = [calls EXCEPT ![c] = NoCall]
    /\ UNCHANGED <<build, pc, thr, exc, inp, gref, nRel, asset, pathChars,
                   data, pos, buf, delivered, last, eofSeen, regular,
                   engClosed, ret, api>>

\* whisper_full returns status, leaving nseg segments in the context; the
\* rest of fullTranscribe runs
FullTranscribe_End(status, nseg) ==
    /\ pc = "run"
    /\ heap' = [heap EXCEPT ![api.h].nseg = nseg]
    /\ api' = fullTranscribe_tail(api, status)
    /\ pc' = "idle"
    /\ UNCHANGED <<calls, build, exc, thr, inp, gref, nRel, asset, pathChars, data,
                   pos, buf, delivered, last, eofSeen, regular, engClosed, ret>>

\* ---- an engine that calls close a second time ---------------------------
EngineCloseAgain(t, attachOk) ==
    /\ pc = "stream"
    /\ engClosed = 1
    /\ thr[t] # "none" => attachOk
    /\ \E f \in FieldsRead(inp) :
        LET S == CloseState(f, t, attachOk,
                    [thr |-> thr, gref |-> gref, nRel |-> nRel, inp |-> inp])
        IN  /\ thr' = S.thr
            /\ gref' = S.gref
            /\ nRel' = S.nRel
            /\ inp' = S.inp
    /\ engClosed' = 2
    /\ last' = [NoLast EXCEPT !.op = "close"]
    /\ UNCHANGED <<calls, heap, api, build, pc, exc, asset, pathChars, data, pos, buf,
                   delivered, eofSeen, regular, ret>>

AssetCloseAgain ==
    /\ pc = "asset"
    /\ engClosed = 1
    /\ asset' = asset_close(asset)
    /\ engClosed' = 2
    /\ last' = [NoLast EXCEPT !.op = "aclose"]
    /\ UNCHANGED <<calls, heap, api, build, pc, thr, exc, inp, gref, nRel, pathChars, data, pos,
                   buf, delivered, eofSeen, regular, ret>>

\* ---- specifications -----------------------------------------------------
\* the loaders: streamed loads are explored from an empty engine heap (what
\* the heap holds has no effect on a load)
Next ==
    \/ LiveAddrs = {} /\ \E fail \in StreamFails :
                            InitContextFromInputStream_Begin(fail)
    \/ \E t \in Threads, n \in 0..MaxReq : EngineRead(t, n)
    \/ EngineEof
    \/ \E t \in Threads, a \in BOOLEAN : EngineClose(t, a)
    \/ \E ok \in BOOLEAN, a \in BOOLEAN : InitContextFromInputStream_End(ok, a)
    \/ LiveAddrs = {} /\ \E fail \in AssetFails :
                            InitContextFromAsset_Begin(fail)
    \/ \E n \in 0..MaxReq : AssetRead(n)
    \/ AssetEof
    \/ AssetClose
    \/ \E ok \in BOOLEAN : InitContextFromAsset_End(ok)
    \/ \E fail \in FileFails, ok \in BOOLEAN : InitContext(fail, ok)

Spec == Init /\ [][Next]_vars

NextReclose ==
    \/ Next
    \/ \E t \in Threads, a \in BOOLEAN : EngineCloseAgain(t, a)
    \/ AssetCloseAgain

SpecReclose == Init /\ [][NextReclose]_vars

\* the contexts: constructions by all three loaders (the engine closes the
\* loader without the byte traffic of Next), and the calls on handles the
\* host holds
NextCtx ==
    \/ \E fail \in FileFails, ok \in BOOLEAN : InitContext(fail, ok)
    \/ \E fail \in StreamFails : InitContextFromInputStream_Begin(fail)
    \/ \E t \in Threads, a \in BOOLEAN : EngineClose(t, a)
    \/ \E ok \in BOOLEAN, a \in BOOLEAN : InitContextFromInputStream_End(ok, a)
    \/ \E fail \in AssetFails : InitContextFromAsset_Begin(fail)
    \/ AssetClose
    \/ \E ok \in BOOLEAN : InitContextFromAsset_End(ok)
    \/ \E h \in Handles : FreeContext(h)
    \/ \E h \in Handles, audio \in BOOLEAN, sel \in Selectors,
          nthreads \in -1..MaxThreads, pinOk \in BOOLEAN,
          charsOk \in BOOLEAN :
            FullTranscribe_Begin(h, audio, sel, nthreads, pinOk, charsOk)
    \/ \E status \in {-1, 0}, nseg \in 0..MaxSeg :
            FullTranscribe_End(status, nseg)
    \/ \E h \in Handles : GetTextSegmentCount(h)
    \/ \E h \in Handles, i \in -1..MaxSeg : GetTextSegment(h, i)
    \/ \E h \in Handles, i \in -1..MaxSeg : GetTextSegmentT0(h, i)
    \/ \E h \in Handles, i \in -1..MaxSeg : GetTextSegmentT1(h, i)

SpecCtx == Init /\ [][NextCtx]_vars

\* a host that frees a handle it has already freed
NextRefree ==
    \/ NextCtx
    \/ \E h \in FreedHandles : FreeContext(h)

SpecRefree == Init /\ [][NextRefree]_vars

\* several host threads call fullTranscribe on the contexts of file loads
NextCalls ==
    \/ \E fail \in FileFails, ok \in BOOLEAN : InitContext(fail, ok)
    \/ \E c \in Callers, h \in Handles, audio \in BOOLEAN,
          waited \in BOOLEAN : Call_Begin(c, h, audio, waited)
    \/ \E c \in Callers, status \in {-1, 0}, nseg \in 0..MaxSeg :
            Call_End(c, status, nseg)

SpecCalls == Init /\ [][NextCalls]_vars

\* an engine that pulls bytes: it asks eof, reads while eof is false and it
\* has not yet received the whole model, then calls close and returns
Enough == pos >= Len(data)

PullEofTurn == engClosed = 0 /\ last.op \in {"none", "read", "aread"}

PullReadTurn ==
    engClosed = 0 /\ last.op \in {"eof", "aeof"} /\ ~last.isEof /\ ~Enough

PullCloseTurn ==
    engClosed = 0 /\ last.op \in {"eof", "aeof"} /\ (last.isEof \/ Enough)

EnginePull ==
    \/ PullEofTurn /\ EngineEof
    \/ PullReadTurn /\ \E t \in Threads, n \in 1..MaxReq : EngineRead(t, n)
    \/ PullCloseTurn /\ \E t \in Threads, a \in BOOLEAN : EngineClose(t, a)
    \/ \E ok \in BOOLEAN, a \in BOOLEAN : InitContextFromInputStream_End(ok, a)
    \/ PullEofTurn /\ AssetEof
    \/ PullReadTurn /\ \E n \in 1..MaxReq : AssetRead(n)
    \/ PullCloseTurn /\ AssetClose
    \/ \E ok \in BOOLEAN : InitContextFromAsset_End(ok)

NextPull ==
    \/ LiveAddrs = {} /\ \E fail \in StreamFails :
                            InitContextFromInputStream_Begin(fail)
    \/ LiveAddrs = {} /\ \E fail \in AssetFails :
                            InitContextFromAsset_Begin(fail)
    \/ EnginePull

\* the engine keeps running: a step of it that stays possible is taken
SpecPull == Init /\ [][NextPull]_vars /\ WF_vars(EnginePull)

TypeOK ==
    /\ build \in Builds
    /\ pc \in {"idle", "stream", "asset", "run"}
    /\ thr \in [Threads -> {"none", "host", "bridge"}]
    /\ exc \in [Threads -> BOOLEAN]
    /\ inp.st \in {"none", "live", "freed"}
    /\ inp.eof \in {0, 1}
    /\ asset.st \in {"none", "open", "closed"}
    /\ pathChars \in {"none", "held", "released"}
    /\ pos \in 0..Len(data)
    /\ Len(data) <= MaxData
    /\ engClosed \in 0..2
    /\ ret \in {NoRet, NULL} \cup Addrs
    /\ heap \in [Addrs -> [st : {"free", "live"}, nseg : 0..MaxSeg]]
    /\ api.nFree \in 0..2
    /\ \A c \in Callers : calls[c].pc \in {"idle", "run"}
    /\ api.op \in ApiOps

\* ---- properties ---------------------------------------------------------
\* a construction call has returned after creating a LoaderContext
ReturnedWithCtx == pc = "idle" /\ ret # NoRet /\ inp.st # "none"

\* C1: for every createFromStream attempt that created a LoaderContext, at
\* return the context storage was released exactly once, each of the two
\* global references that was created was released exactly once, and nothing
\* is ever released a second time (engine close and bridge close together).
C1_DestroyedExactlyOnce ==
    /\ nRel.stream <= 1 /\ nRel.buffer <= 1 /\ nRel.ctx <= 1
    /\ ReturnedWithCtx =>
          /\ nRel.ctx = 1
          /\ gref.stream # "none" => nRel.stream = 1
          /\ gref.buffer # "none" => nRel.buffer = 1

\* C2: when a construction call (file, asset or stream) returns handle 0,
\* nothing the attempt created is still held: no live global reference, no
\* open asset, no unreleased path string, no allocated LoaderContext.
C2_FailureLeaksNothing ==
    (pc = "idle" /\ ret = 0) =>
        /\ gref.stream # "live"
        /\ gref.buffer # "live"
        /\ asset.st # "open"
        /\ pathChars # "held"
        /\ inp.st # "live"

\* C3: a second close of the same loader context (stream or asset) releases
\* nothing again: no reference, context, asset handle or thread attachment is
\* released more than once.
C3_CloseIdempotent ==
    /\ nRel.stream <= 1
    /\ nRel.buffer <= 1
    /\ nRel.ctx <= 1
    /\ nRel.detach <= 1
    /\ asset.nClose <= 1

\* C4: once the LoaderContext is closed no thread is left attached by the
\* bridge, and the calling host thread, which the bridge did not attach, is
\* never detached by it.
C4_DetachSymmetric ==
    /\ thr[HostThread] = "host"
    /\ inp.st # "live" => \A t \in Threads : thr[t] # "bridge"

\* C5: once eof() has returned true for a stream loader, a later read on it
\* returns 0 bytes.
C5_NoReadAfterEof ==
    (eofSeen /\ last.op = "read") => last.ret = 0

\* C6: the end-of-stream flag is false at creation, a read that observed a
\* fault or a count <= 0 leaves eof() true, and while the context lives no
\* step turns eof() from true to false.
C6_EofMonotone ==
    [][ /\ (inp.st # "live" /\ inp'.st = "live") => ~is_eof(inp')
        /\ (inp.st = "live" /\ inp'.st = "live" /\ is_eof(inp)) => is_eof(inp')
        /\ (last'.op = "read" /\ last'.called /\ last'.ret = 0
              /\ inp'.st = "live") => is_eof(inp') ]_vars

\* a successful read happened after the flag was set and the flag is still set
C6_Witness ==
    inp.st = "live" /\ is_eof(inp) /\ last.op = "read" /\ last.ret > 0

\* C7: after a read in which the host stream raised a fault, the call has
\* returned 0, copied nothing, eof() is true and no exception is pending on
\* any thread while the engine is running.
C7_FaultAbsorbed ==
    /\ (last.op = "read" /\ last.err = "fault") =>
          last.ret = 0 /\ last.copied = 0 /\ is_eof(inp)
    /\ pc = "stream" => \A t \in Threads : ~exc[t]

C7_Witness == pc = "stream" /\ last.op = "read" /\ last.err = "fault"

\* C8: after a read that reported 0 bytes because of an error (stream fault,
\* no execution context, pin failure, negative asset read) eof() of the same
\* loader is true.
C8_ErrorIsEof ==
    /\ (last.op = "read" /\ last.err # "none") =>
          last.ret = 0 /\ is_eof(inp)
    /\ (last.op = "aread" /\ last.err # "none") =>
          last.ret = 0 /\ asset_eof

\* C9: one is_read call copies at most min(read_size, buf_len) bytes into the
\* destination, whatever count the host stream reported.
C9_CopyBounded ==
    last.op = "read" => last.copied <= Min(last.req, inp.buf_len)

\* C10: while the host stream keeps its contract and no pin failed, the bytes
\* delivered to the engine so far are exactly the bytes the stream has handed
\* out, in order; after a clean end-of-stream they are the whole sequence.
C10_SourceIndependence ==
    (pc = "stream" /\ regular) =>
        /\ delivered = SubSeq(data, 1, pos)
        /\ (last.op = "read" /\ last.err = "none" /\ last.ret = 0
              /\ last.req > 0) => delivered = data

\* a stream longer than the buffer was delivered completely, in several reads
C10_Witness ==
    /\ pc = "stream" /\ regular
    /\ Len(data) > BufLen
    /\ delivered = data
    /\ last.op = "read" /\ last.err = "none" /\ last.ret = 0 /\ last.req > 0

\* the latest call was an accessor of one segment
SegmentCall == api.op \in {"text", "t0", "t1"}

\* fullTranscribe has returned after running the engine
RunReturned ==
    api.op = "transcribe" /\ api.run = "returned" /\ "whisper_full" \in api.eng

\* C11: for every handle and every index i < 0 or i >= segmentCount(handle),
\* segmentText returns "", segmentStart and segmentEnd return 0, and the
\* engine's per-segment accessor is not called with that index.
C11_OutOfRangeSentinel ==
    (SegmentCall /\ ~InRange(api.h, api.i)) =>
        api.str = "" /\ api.num = 0 /\ api.idx = NoIdx

\* C12: a call with handle 0 (free, transcribe, segmentCount, segmentText,
\* segmentStart, segmentEnd) calls no engine function, borrows no array
\* elements or string characters, and returns nothing / 0 / "" / 0 / 0.
C12_ZeroHandleNoOp ==
    (api.op # "none" /\ api.h = NULL) =>
        /\ api.eng = {}
        /\ api.idx = NoIdx
        /\ api.pcm = "none" /\ api.lang = "none"
        /\ api.run # "running"
        /\ api.str = "" /\ api.num = 0

\* free(0) came back while a context is live
C12_Witness == api.op = "free" /\ api.h = NULL /\ LiveAddrs # {}

\* C13: freeContext is idempotent: whisper_free runs at most once on one
\* constructed context, a second freeContext on the same handle releases
\* nothing.
C13_FreeIdempotent == api.op = "free" => api.nFree <= 1

\* C14: every handle returned by a successful construction is non-zero and
\* designates a live context, and no two live contexts have the same handle.
C14_HandlesDistinct ==
    /\ \A a \in LiveAddrs : handle_of(a) # NULL
    /\ \A a, b \in LiveAddrs : a # b => handle_of(a) # handle_of(b)
    /\ (pc = "idle" /\ ret \notin {NoRet, NULL}) =>
          \E a \in LiveAddrs : ret = handle_of(a)

\* a construction has just returned a second handle beside a live one
C14_Witness ==
    /\ pc = "idle" /\ ret \notin {NoRet, NULL}
    /\ \E a \in LiveAddrs : handle_of(a) # ret

\* C15: a construction that fails returns handle 0 and leaves no Java
\* exception pending on the calling thread.
C15_FailureOnlyZero ==
    (pc = "idle" /\ ret = NULL) => ~exc[HostThread]

\* C16: in fullTranscribe, while whisper_full runs the pinned audio and the
\* language characters are held and unreleased; when the call has returned,
\* on every path, each of the two that was obtained has been released exactly
\* once and one that was never obtained has not been released.
C16_BorrowsReleasedOnce ==
    api.op = "transcribe" =>
        /\ api.run = "running" =>
              /\ api.pcm = "held" /\ api.nRelPcm = 0
              /\ api.lang # "released" /\ api.nRelLang = 0
        /\ api.run = "returned" =>
              /\ api.pcm # "held" /\ api.lang # "held"
              /\ api.nRelPcm = (IF api.pcm = "released" THEN 1 ELSE 0)
              /\ api.nRelLang = (IF api.lang = "released" THEN 1 ELSE 0)

\* a run the engine failed has returned with both borrowed references
C16_Witness ==
    /\ RunReturned /\ api.status # 0
    /\ api.pcm = "released" /\ api.lang = "released"

\* C17: createFromPath and createFromAsset hold the path characters while
\* the engine's constructor runs and have released them exactly once when
\* the call has returned, whether a context or NULL came back; characters
\* that were never obtained are not released.
C17_PathReleasedOnce ==
    /\ pc = "asset" => pathChars = "held" /\ nRel.path = 0
    /\ pc = "idle" =>
          /\ pathChars # "held"
          /\ nRel.path = (IF pathChars = "released" THEN 1 ELSE 0)

\* an asset load the engine rejected has returned
C17_Witness ==
    /\ pc = "idle" /\ ret = NULL
    /\ asset.st # "none" /\ pathChars = "released"

\* C18: the engine gets n_threads = 1 when the caller's thread count is <= 0
\* and the caller's count unchanged when it is > 0.
C18_ThreadsNormalised ==
    (api.op = "transcribe" /\ api.run = "running") =>
        api.p.n_threads = (IF api.nthreads <= 0 THEN 1 ELSE api.nthreads)

\* the engine runs with one thread for a caller who asked for none
C18_Witness ==
    /\ api.op = "transcribe" /\ api.run = "running"
    /\ api.nthreads <= 0 /\ api.p.n_threads = 1

\* C19: for the selector "auto" or an absent selector the run enables
\* language detection and pins no language; for every other selector it
\* pins that value and disables detection.
C19_LanguageBySelector ==
    (api.op = "transcribe" /\ api.run = "running") =>
        IF api.sel \in {"absent", "auto"}
          THEN api.p.detect_language /\ api.p.language = "default"
          ELSE ~api.p.detect_language /\ api.p.language = api.sel

\* C19, amended: the run pins the selector's value and disables detection
\* when the selector is present, its characters were obtained and they are
\* not "auto"; in every other case (absent, "auto", characters unavailable)
\* it enables detection and leaves the engine's default language in place.
C19_LanguageByChars ==
    (api.op = "transcribe" /\ api.run = "running") =>
        IF api.sel \notin {"absent", "auto"} /\ api.lang = "held"
          THEN ~api.p.detect_language /\ api.p.language = api.sel
          ELSE api.p.detect_language /\ api.p.language = "default"

\* a run whose selector names a language but whose characters were
\* unavailable detects the language
C19_Witness ==
    /\ api.op = "transcribe" /\ api.run = "running"
    /\ api.sel \notin {"absent", "auto"} /\ api.lang = "none"
    /\ api.p.detect_language

\* C20: when whisper_full reported a non-zero status the call hands the
\* caller an outcome different from the one a successful run hands back.
C20_FailureReported ==
    (RunReturned /\ api.status # 0) =>
        api.out # fullTranscribe_tail(api, 0).out

\* C20, amended: fullTranscribe returns nothing whatever status whisper_full
\* reported; a non-zero status is written to the log and only there, and an
\* exception pending at return comes from the language string, never from
\* the engine's status.
C20_FailureOnlyLogged ==
    RunReturned =>
        /\ api.out = "void"
        /\ (api.log = "whisper_full() failed") <=> (api.status # 0)
        /\ exc[HostThread] => api.lang = "none"

\* a run the engine failed has returned without an exception
C20_Witness ==
    /\ RunReturned /\ api.status # 0
    /\ api.log = "whisper_full() failed" /\ ~exc[HostThread]

\* C21: a stream or asset load that has started eventually ends: for the
\* pulling engine and whatever the host side does, the construction call
\* eventually returns.
C21_LoadTerminates == (pc \in {"stream", "asset"}) ~> (pc = "idle")

\* the host threads whose call is inside whisper_full on the context h
Running(h) ==
    {c \in Callers : calls[c].a.run = "running" /\ calls[c].a.h = h}

\* C22: the bridge does not serialize runs: two host threads that call
\* fullTranscribe on the same live handle without waiting for each other can
\* both be inside whisper_full on that context; when every caller waits for
\* the other calls on the handle to return, at most one run per handle is in
\* progress.
C22_SerializedRunsExclusive ==
    \A h \in Addrs :
        (\A c \in Running(h) : calls[c].waited) => Cardinality(Running(h)) <= 1

\* two calls are inside whisper_full on the same live context
C22_Witness ==
    \E h \in LiveAddrs : Cardinality(Running(h)) >= 2

\* how many of the first i steps of s are x
RECURSIVE CountIn(_, _, _)
CountIn(s, x, i) ==
    IF i = 0 THEN 0 ELSE CountIn(s, x, i - 1) + (IF s[i] = x THEN 1 ELSE 0)

\* the buffer's elements are pinned when step i of s is made
PinnedAt(s, i) == CountIn(s, "pin", i - 1) > CountIn(s, "unpin", i - 1)

\* C23: in every stream read that returns n > 0 the bytes are copied out
\* while the buffer's elements are pinned (after GetByteArrayElements and
\* before ReleaseByteArrayElements); every pin is released before the read
\* returns; the buffer's global reference is valid for as long as the loader
\* has not been closed.
C23_CopyWhilePinned ==
    /\ (last.op = "read" /\ last.ret > 0) =>
          /\ \E i \in 1..Len(last.steps) : last.steps[i] = "copy"
          /\ \A i \in 1..Len(last.steps) :
                last.steps[i] = "copy" => PinnedAt(last.steps, i)
    /\ CountIn(last.steps, "pin", Len(last.steps))
          = CountIn(last.steps, "unpin", Len(last.steps))
    /\ (pc = "stream" /\ engClosed = 0) => gref.buffer = "live"

\* a stream read has returned n > 0 bytes
C23_Witness ==
    /\ last.op = "read"
    /\ last.ret > 0
    /\ pc = "stream"
    /\ gref.buffer = "live"

\* C24: get_env_from_jvm on a thread already registered with the JVM returns
\* that thread's context without attaching and leaves the attached-by-us
\* record as it was; on an unregistered thread it attaches the thread and sets
\* the record; when the attach is rejected it fails, the record stays as it
\* was, and the read that called it makes no host call and reports 0.
C24_AcquireRecordsAttach ==
    [][\A t \in Threads :
          (\E n \in 0..MaxReq : EngineRead(t, n)) =>
              /\ thr[t] # "none" =>
                    /\ thr' = thr
                    /\ inp'.attached_by_us = inp.attached_by_us
              /\ (thr[t] = "none" /\ thr'[t] # "none") =>
                    inp'.attached_by_us = 1
              /\ (thr[t] = "none" /\ thr'[t] = "none") =>
                    /\ inp'.attached_by_us = inp.attached_by_us
                    /\ ~last'.called
                    /\ last'.ret = 0]_vars

\* C25: createFromPath never reads the path characters after it has released
\* them: the engine's constructor and the log line that prints the path on
\* success both come before ReleaseStringUTFChars.
C25_PathNotReadAfterRelease ==
    nRel.stale = 0

\* C26: a stream read returns fewer bytes than were asked for only when the
\* stream is exhausted or has faulted: whatever the request, also one larger
\* than the transfer buffer, a read on a stream that still holds at least
\* that many bytes fills the whole destination.
C26_ReadFillsRequest ==
    (/\ last.op = "read"
     /\ last.called
     /\ last.err = "none"
     /\ regular
     /\ Len(data) - (pos - last.copied) >= last.req) =>
        last.ret = last.req

====
